---- MODULE Spec2Model ----
(***************************************************************************)
(* Model of PointsProjection.c: the projection engine project(), its       *)
(* multiplier sub-calculations, the clamp helper and the tunable weights.  *)
(*                                                                         *)
(* Every quantity of the program is a C double.  A double is modelled as   *)
(* an IEEE-754 binary64 value, with round-to-nearest-even arithmetic,      *)
(* signed zeros, subnormals, infinities and NaN.  Significands exceed the  *)
(* range of TLC's integers, so they are kept as little-endian sequences of *)
(* 15-bit limbs without leading zero limbs.                                *)
(*                                                                         *)
(* The arithmetic is one recursive operator, Calc(op, p), with one arm per *)
(* operation; each operation also has a name of its own (FMul, FAdd, ...)  *)
(* that applies Calc to the operation and the tuple of its arguments.      *)
(***************************************************************************)
EXTENDS Integers, Sequences, FiniteSets, TLC

LimbBits == 15
LimbBase == 2^LimbBits

\* C double: (-1)^s * m * 2^e with m < 2^MantBits and EMin <= e <= EMax, in
\* canonical form: m >= 2^(MantBits - 1) unless e = EMin (subnormals, zero)
MantBits == 53
EMin == 0 - 1074
EMax == 971

Max(a, b) == IF a >= b THEN a ELSE b
Min(a, b) == IF a <= b THEN a ELSE b
MaxOf(S) == CHOOSE m \in S : \A k \in S : k <= m
Limb(a, i) == IF i \in DOMAIN a THEN a[i] ELSE 0

NaN == [k |-> "nan", s |-> 0, m |-> <<>>, e |-> 0]
Inf(s) == [k |-> "inf", s |-> s, m |-> <<>>, e |-> 0]
Zero(s) == [k |-> "fin", s |-> s, m |-> <<>>, e |-> EMin]
Fin(s, m, e) == [k |-> "fin", s |-> s, m |-> m, e |-> e]

IsNaN(x) == x.k = "nan"
IsInf(x) == x.k = "inf"
IsFinite(x) == x.k = "fin"
IsZero(x) == x.k = "fin" /\ x.m = <<>>

Xor(s, t) == IF s = t THEN 0 ELSE 1
Sign(n) == IF n < 0 THEN 1 ELSE 0
Abs(n) == IF n < 0 THEN 0 - n ELSE n

RECURSIVE Calc(_, _)

(***************************************************************************)
(* Natural numbers of arbitrary size (the significands of doubles).        *)
(***************************************************************************)
\* a without its leading zero limbs
BNorm(a) == Calc("BNorm", <<a>>)
\* The limbs of the integer n >= 0
BFromNat(n) == Calc("BFromNat", <<n>>)
\* -1, 0, 1 as a < b, a = b, a > b
BCmp(a, b) == Calc("BCmp", <<a, b>>)
\* a + b + c for a carry c of 0 or 1
BAddC(a, b, c) == Calc("BAddC", <<a, b, c>>)
BAdd(a, b) == Calc("BAddC", <<a, b, 0>>)
\* a - b for a >= b
BSub(a, b) == Calc("BSub", <<a, b>>)
\* a * k for 0 <= k < LimbBase
BMulSmall(a, k) == Calc("BMulSmall", <<a, k>>)
BMul(a, b) == Calc("BMul", <<a, b>>)
\* The number of bits of a
BBitLen(a) == Calc("BBitLen", <<a>>)
\* a * 2^n and a \div 2^n
BShl(a, n) == Calc("BShl", <<a, n>>)
BShr(a, n) == Calc("BShr", <<a, n>>)
\* <<digit, remainder>> of r by v, for r < v * LimbBase and a v whose top limb
\* is LimbBase / 2 or more
BDivDigit(r, v) == Calc("BDivDigit", <<r, v>>)
\* Long division of u by v, limbs i down to 1 left to do, with the quotient
\* limbs q and the remainder r of the limbs above i: <<quotient, remainder>>
BDivLimbs(u, v, i, q, r) == Calc("BDivLimbs", <<u, v, i, q, r>>)
\* <<quotient, remainder>> of a by d > 0
BDivMod(a, d) == Calc("BDivMod", <<a, d>>)

(***************************************************************************)
(* Arithmetic and comparisons of C doubles.                                *)
(***************************************************************************)
\* The double nearest to (-1)^s * M * 2^E (ties to even; overflow to infinity)
RoundPack(s, M, E) == Calc("RoundPack", <<s, M, E>>)
\* The double nearest to (-1)^s * (N / D) * 2^E, for N > 0 and D > 0
DivRound(s, N, D, E) == Calc("DivRound", <<s, N, D, E>>)
FMul(x, y) == Calc("FMul", <<x, y>>)
FDiv(x, y) == Calc("FDiv", <<x, y>>)
FAdd(x, y) == Calc("FAdd", <<x, y>>)
FNeg(x) == IF IsNaN(x) THEN x ELSE [x EXCEPT !.s = 1 - x.s]
FSub(x, y) == Calc("FAdd", <<x, FNeg(y)>>)
\* big + small for nonzero finite values whose exponents differ by more than
\* FarApart: small is below a quarter of big's last place, and only nudges it
FarApart == MantBits + 7
AddFar(big, small) == Calc("AddFar", <<big, small>>)
\* Order of the magnitudes of two finite or infinite values: -1, 0, 1
MagCmp(x, y) == Calc("MagCmp", <<x, y>>)
\* C's x < y, x > y, x == y, x <= y on doubles (all false on NaN)
FLt(x, y) == Calc("FLt", <<x, y>>)
FGt(x, y) == Calc("FLt", <<y, x>>)
FEq(x, y) == Calc("FEq", <<x, y>>)
FLe(x, y) == Calc("FLe", <<x, y>>)
\* The double an integer converts to
FromInt(n) == Calc("FromInt", <<n>>)
\* The double a decimal literal of the value n/d denotes (d > 0): the nearest
Lit(n, d) == Calc("Lit", <<n, d>>)
\* The double 2^n, for EMin <= n <= EMax + MantBits - 1
TwoTo(n) == Calc("RoundPack", <<0, <<1>>, n>>)

Calc(op, p) ==
  CASE op = "BNorm" ->
    LET a == p[1]
    IN  SubSeq(a, 1, MaxOf({0} \cup {i \in DOMAIN a : a[i] # 0}))

  [] op = "BFromNat" ->
    LET n == p[1]
    IN  BNorm([i \in 1..3 |-> (n \div LimbBase^(i - 1)) % LimbBase])

  [] op = "BCmp" ->
    LET a == p[1]
        b == p[2]
        D == {i \in DOMAIN a : a[i] # b[i]}
    IN  IF Len(a) # Len(b) THEN (IF Len(a) < Len(b) THEN -1 ELSE 1)
        ELSE IF D = {} THEN 0
        ELSE IF a[MaxOf(D)] < b[MaxOf(D)] THEN -1 ELSE 1

  [] op = "BAddC" ->
    \* limb j makes a carry by itself; limb j passes a carry on; the carry
    \* into limb i
    LET a == p[1]
        b == p[2]
        c == p[3]
        Sum(j) == Limb(a, j) + Limb(b, j) + (IF j = 1 THEN c ELSE 0)
        CarryIn(i) == IF \E j \in 1..(i - 1) :
                            /\ Sum(j) >= LimbBase
                            /\ \A k \in (j + 1)..(i - 1) : Sum(k) = LimbBase - 1
                      THEN 1 ELSE 0
    IN  BNorm([i \in 1..(Max(Len(a), Len(b)) + 1) |->
                  (Sum(i) + CarryIn(i)) % LimbBase])

  [] op = "BSub" ->
    LET a == p[1]
        b == p[2]
        BorrowIn(i) == IF \E j \in 1..(i - 1) :
                             /\ a[j] < Limb(b, j)
                             /\ \A k \in (j + 1)..(i - 1) : a[k] = Limb(b, k)
                       THEN 1 ELSE 0
    IN  BNorm([i \in 1..Len(a) |->
                  (a[i] - Limb(b, i) - BorrowIn(i) + LimbBase) % LimbBase])

  [] op = "BMulSmall" ->
    LET a == p[1]
        k == p[2]
    IN  IF a = <<>> \/ k = 0 THEN <<>>
        ELSE BAdd([i \in 1..Len(a) |-> (a[i] * k) % LimbBase],
                  <<0>> \o [i \in 1..Len(a) |-> (a[i] * k) \div LimbBase])

  [] op = "BMul" ->
    LET a == p[1]
        b == p[2]
    IN  IF a = <<>> \/ b = <<>> THEN <<>>
        ELSE IF Len(b) = 1 THEN BMulSmall(a, b[1])
        ELSE BAdd(BMulSmall(a, b[1]), <<0>> \o BMul(a, Tail(b)))

  [] op = "BBitLen" ->
    LET a   == p[1]
        top == a[Len(a)]
    IN  IF a = <<>> THEN 0
        ELSE LimbBits * (Len(a) - 1)
             + (CHOOSE n \in 1..LimbBits : 2^(n - 1) <= top /\ top < 2^n)

  [] op = "BShl" ->
    LET a == p[1]
        n == p[2]
    IN  IF a = <<>> THEN a
        ELSE [i \in 1..(n \div LimbBits) |-> 0]
             \o BMulSmall(a, 2^(n % LimbBits))

  [] op = "BShr" ->
    LET a == p[1]
        q == p[2] \div LimbBits
        r == p[2] % LimbBits
    IN  IF q >= Len(a) THEN <<>>
        ELSE BNorm([i \in 1..(Len(a) - q) |->
                       (a[i + q] \div 2^r)
                       + (Limb(a, i + q + 1) % 2^r) * 2^(LimbBits - r)])

  [] op = "BDivDigit" ->
    \* the digit is estimated from the top limbs; the estimate is the digit
    \* or up to 2 above it
    LET r   == p[1]
        v   == p[2]
        n   == Len(v)
        top == Limb(r, n + 1) * LimbBase + Limb(r, n)
        qh  == Min(LimbBase - 1, top \div v[n])
        q   == CHOOSE d \in Max(0, qh - 2)..qh :
                  /\ BCmp(BMulSmall(v, d), r) <= 0
                  /\ d < qh => BCmp(BMulSmall(v, d + 1), r) > 0
    IN  <<q, BSub(r, BMulSmall(v, q))>>

  [] op = "BDivLimbs" ->
    LET u  == p[1]
        v  == p[2]
        i  == p[3]
        qd == BDivDigit(BNorm(<<u[i]>> \o p[5]), v)
    IN  IF i = 0 THEN <<BNorm(p[4]), p[5]>>
        ELSE BDivLimbs(u, v, i - 1, <<qd[1]>> \o p[4], qd[2])

  [] op = "BDivMod" ->
    \* the divisor is scaled to a top limb of LimbBase / 2 or more; the top
    \* limbs of the dividend, one fewer than the divisor has, are below the
    \* divisor and start as the remainder
    LET a  == p[1]
        d  == p[2]
        sc == LimbBits * Len(d) - BBitLen(d)
        u  == BShl(a, sc)
        k  == Max(0, Len(u) - Len(d) + 1)
        qr == BDivLimbs(u, BShl(d, sc), k, <<>>, SubSeq(u, k + 1, Len(u)))
    IN  <<qr[1], BShr(qr[2], sc)>>

  [] op = "RoundPack" ->
    \* sh low bits of M are rounded away: q is M without them, c compares
    \* them with a half of q's last place
    LET s    == p[1]
        M    == p[2]
        E    == p[3]
        sh   == Max(BBitLen(M) - MantBits, EMin - E)
        q    == BShr(M, sh)
        c    == BCmp(BSub(M, BShl(q, sh)), BShl(<<1>>, sh - 1))
        up   == c > 0 \/ (c = 0 /\ Limb(q, 1) % 2 = 1)
        m1   == IF up THEN BAdd(q, <<1>>) ELSE q
        ovf  == BBitLen(m1) > MantBits
        m2   == IF ovf THEN BShr(m1, 1) ELSE m1
        e2   == IF ovf THEN E + sh + 1 ELSE E + sh
    IN  IF M = <<>> THEN Zero(s)
        ELSE IF sh <= 0
             THEN (IF E + sh > EMax THEN Inf(s)
                   ELSE Fin(s, BShl(M, 0 - sh), E + sh))
        ELSE IF m2 = <<>> THEN Zero(s)
        ELSE IF e2 > EMax THEN Inf(s)
        ELSE Fin(s, m2, e2)

  [] op = "DivRound" ->
    \* the quotient is taken to MantBits + 2 bits or more, and what is left
    \* of the division makes one more, sticky, bit
    LET s   == p[1]
        N   == p[2]
        D   == p[3]
        E   == p[4]
        g   == MantBits + 3 - BBitLen(N) + BBitLen(D)
        N1  == IF g >= 0 THEN BShl(N, g) ELSE BShr(N, 0 - g)
        low == g < 0 /\ BShl(N1, 0 - g) # N
        qr  == BDivMod(N1, D)
    IN  RoundPack(s,
                  BAddC(qr[1], qr[1], IF qr[2] # <<>> \/ low THEN 1 ELSE 0),
                  E - g - 1)

  [] op = "FMul" ->
    LET x == p[1]
        y == p[2]
    IN  IF IsNaN(x) \/ IsNaN(y) THEN NaN
        ELSE IF (IsInf(x) /\ IsZero(y)) \/ (IsZero(x) /\ IsInf(y)) THEN NaN
        ELSE IF IsInf(x) \/ IsInf(y) THEN Inf(Xor(x.s, y.s))
        ELSE RoundPack(Xor(x.s, y.s), BMul(x.m, y.m), x.e + y.e)

  [] op = "FDiv" ->
    LET x == p[1]
        y == p[2]
    IN  IF IsNaN(x) \/ IsNaN(y) THEN NaN
        ELSE IF (IsInf(x) /\ IsInf(y)) \/ (IsZero(x) /\ IsZero(y)) THEN NaN
        ELSE IF IsInf(x) \/ IsZero(y) THEN Inf(Xor(x.s, y.s))
        ELSE IF IsInf(y) \/ IsZero(x) THEN Zero(Xor(x.s, y.s))
        ELSE DivRound(Xor(x.s, y.s), x.m, y.m, x.e - y.e)

  [] op = "AddFar" ->
    LET big   == p[1]
        small == p[2]
        b8    == BShl(big.m, 3)
    IN  RoundPack(big.s,
                  IF big.s = small.s THEN BAdd(b8, <<1>>) ELSE BSub(b8, <<1>>),
                  big.e - 3)

  [] op = "FAdd" ->
    LET x  == p[1]
        y  == p[2]
        e0 == Min(x.e, y.e)
        a  == BShl(x.m, x.e - e0)
        b  == BShl(y.m, y.e - e0)
        c  == BCmp(a, b)
    IN  IF IsNaN(x) \/ IsNaN(y) THEN NaN
        ELSE IF IsInf(x) /\ IsInf(y) THEN (IF x.s = y.s THEN x ELSE NaN)
        ELSE IF IsInf(x) THEN x
        ELSE IF IsInf(y) THEN y
        ELSE IF IsZero(x) /\ IsZero(y)
             THEN Zero(IF x.s = 1 /\ y.s = 1 THEN 1 ELSE 0)
        ELSE IF IsZero(x) THEN y
        ELSE IF IsZero(y) THEN x
        ELSE IF x.e - y.e > FarApart THEN AddFar(x, y)
        ELSE IF y.e - x.e > FarApart THEN AddFar(y, x)
        ELSE IF x.s = y.s THEN RoundPack(x.s, BAdd(a, b), e0)
        ELSE IF c = 0 THEN Zero(0)
        ELSE IF c > 0 THEN RoundPack(x.s, BSub(a, b), e0)
        ELSE RoundPack(y.s, BSub(b, a), e0)

  [] op = "MagCmp" ->
    LET x == p[1]
        y == p[2]
    IN  IF IsInf(x) \/ IsInf(y)
        THEN (IF IsInf(x) /\ IsInf(y) THEN 0 ELSE IF IsInf(x) THEN 1 ELSE -1)
        ELSE IF x.e < y.e THEN -1
        ELSE IF x.e > y.e THEN 1
        ELSE BCmp(x.m, y.m)

  [] op = "FLt" ->
    LET x == p[1]
        y == p[2]
    IN  IF IsNaN(x) \/ IsNaN(y) THEN FALSE
        ELSE IF IsZero(x) /\ IsZero(y) THEN FALSE
        ELSE IF x.s # y.s THEN x.s = 1
        ELSE IF x.s = 0 THEN MagCmp(x, y) < 0
        ELSE MagCmp(x, y) > 0

  [] op = "FEq" ->
    LET x == p[1]
        y == p[2]
    IN  IF IsNaN(x) \/ IsNaN(y) THEN FALSE
        ELSE IF IsZero(x) /\ IsZero(y) THEN TRUE
        ELSE x = y

  [] op = "FLe" ->
    FLt(p[1], p[2]) \/ FEq(p[1], p[2])

  [] op = "FromInt" ->
    RoundPack(Sign(p[1]), BFromNat(Abs(p[1])), 0)

  [] op = "Lit" ->
    IF p[1] = 0 THEN Zero(0)
    ELSE DivRound(Sign(p[1]), BFromNat(Abs(p[1])), BFromNat(p[2]), 0)

(***************************************************************************)
(* Bounds of the model: at most MaxDev of the constants and input fields   *)
(* differ from the shipped constants and the reference inputs; the inputs  *)
(* of extreme magnitude are 2^Huge and 2^-Huge.                            *)
(***************************************************************************)
MaxDev == 2
Huge == 1020

(***************************************************************************)
(* Tunable weights, baselines and caps.  They are compile-time constants   *)
(* that the source invites the user to edit ("Everything is tunable"), so  *)
(* the model keeps the build's setting in the variable cfg: the shipped    *)
(* values, or the shipped values with one constant edited.  A decimal      *)
(* literal is written <<n, d>> for n/d and denotes the double Lit(n, d).   *)
(***************************************************************************)
Doubles(r) == [f \in DOMAIN r |-> Lit(r[f][1], r[f][2])]

Shipped == Doubles([
    W_BASE_LINE                 |-> <<60, 100>>,
    W_BASE_SEASON_AVG           |-> <<40, 100>>,
    W_HOME_AWAY                 |-> <<4, 100>>,
    W_GAME_TOTAL                |-> <<6, 100>>,
    W_TEAM_TOTAL                |-> <<12, 100>>,
    W_DEF_VS_POS                |-> <<14, 100>>,
    W_RECENT_FORM               |-> <<8, 100>>,
    W_MINUTES_TREND             |-> <<10, 100>>,
    W_PACE                      |-> <<6, 100>>,
    W_B2B_PENALTY               |-> <<3, 100>>,
    LEAGUE_AVG_GAME_TOTAL       |-> <<229, 1>>,
    LEAGUE_AVG_TEAM_TOTAL       |-> <<1145, 10>>,
    LEAGUE_AVG_PACE             |-> <<995, 10>>,
    LEAGUE_BASE_PTS_ALLOWED_POS |-> <<23, 1>>,
    MULT_MIN                    |-> <<70, 100>>,
    MULT_MAX                    |-> <<140, 100>> ])

\* The literals 1.0 and 0.0 of the source
One == Fin(0, <<0, 0, 0, 128>>, 0 - 52)
Zero0 == Zero(0)

\* Edits of single constants: each optional weight disabled or changed, each
\* baseline zero or negative
Edits == [
    W_RECENT_FORM               |-> {<<0, 1>>, <<50, 100>>},
    W_MINUTES_TREND             |-> {<<0, 1>>, <<-10, 100>>},
    W_PACE                      |-> {<<0, 1>>},
    W_B2B_PENALTY               |-> {<<0, 1>>, <<-3, 100>>, <<50, 100>>},
    LEAGUE_AVG_GAME_TOTAL       |-> {<<0, 1>>},
    LEAGUE_AVG_TEAM_TOTAL       |-> {<<0, 1>>},
    LEAGUE_AVG_PACE             |-> {<<0, 1>>, <<-995, 10>>},
    LEAGUE_BASE_PTS_ALLOWED_POS |-> {<<0, 1>>, <<-23, 1>>} ]

\* The builds: the shipped constants, or one of them edited
Configs ==
    {Shipped} \cup
    { [Shipped EXCEPT ![fv[1]] = Lit(fv[2][1], fv[2][2])] :
          fv \in UNION {{f} \X Edits[f] : f \in DOMAIN Edits} }

(***************************************************************************)
(* Inputs: the fields in the order main reads them (player_name is only    *)
(* printed).  Doubles are read by scanf("%lf"), the two flags by "%d".     *)
(***************************************************************************)
FieldOrder == << "player_line_pts", "season_avg_pts", "is_home",
                 "game_total_ou", "team_total_ou", "opp_pts_allowed_vs_pos",
                 "recent_avg_pts", "season_avg_minutes", "expected_minutes",
                 "matchup_pace", "is_back_to_back" >>

IntFields == {"is_home", "is_back_to_back"}

\* The value scanf stores for the text v of field f
Scanned(f, v) == IF f \in IntFields THEN v ELSE Lit(v[1], v[2])
Scan(r) == [f \in DOMAIN r |-> Scanned(f, r[f])]

\* The reference inputs: every optional driver neutral, at home
Neutral == Scan([
    player_line_pts        |-> <<25, 1>>,
    season_avg_pts         |-> <<23, 1>>,
    is_home                |-> 1,
    game_total_ou          |-> <<229, 1>>,
    team_total_ou          |-> <<1145, 10>>,
    opp_pts_allowed_vs_pos |-> <<23, 1>>,
    recent_avg_pts         |-> <<23, 1>>,
    season_avg_minutes     |-> <<34, 1>>,
    expected_minutes       |-> <<34, 1>>,
    matchup_pace           |-> <<995, 10>>,
    is_back_to_back        |-> 0 ])

\* The other values each field is read as: ordinary deviations, zero and
\* negative values
Others == [
    player_line_pts        |-> {<<0, 1>>, <<305, 10>>},
    season_avg_pts         |-> {<<0, 1>>, <<-5, 1>>, <<30, 1>>},
    is_home                |-> {0},
    game_total_ou          |-> {<<250, 1>>, <<0, 1>>},
    team_total_ou          |-> {<<100, 1>>},
    opp_pts_allowed_vs_pos |-> {<<30, 1>>, <<0, 1>>},
    recent_avg_pts         |-> {<<30, 1>>, <<10, 1>>},
    season_avg_minutes     |-> {<<0, 1>>, <<-34, 1>>, <<30, 1>>},
    expected_minutes       |-> {<<0, 1>>, <<-34, 1>>, <<-306, 1>>, <<30, 1>>},
    matchup_pace           |-> {<<104, 1>>, <<0, 1>>},
    is_back_to_back        |-> {1, 2} ]

\* The finite values of extreme magnitude a field is read as
Extremes(f) ==
    CASE f = "season_avg_pts" -> {TwoTo(0 - Huge)}
      [] f \in {"game_total_ou", "team_total_ou"} -> {TwoTo(Huge)}
      [] OTHER -> {}

\* The values each field is read as
Readings == [f \in DOMAIN Neutral |->
                {Neutral[f]} \cup {Scanned(f, v) : v \in Others[f]}
                \cup Extremes(f)]

(***************************************************************************)
(* Faulty variants of model functions, each with one plausible fault.      *)
(***************************************************************************)
\* clamp without the upper cap
clamp_floor_only(x, lo, hi) == IF FLt(x, lo) THEN lo ELSE x

\* homeaway_multiplier with the two signs swapped
homeaway_swapped(c, i) ==
    FAdd(One, IF i.is_home # 0 THEN FNeg(c.W_HOME_AWAY) ELSE c.W_HOME_AWAY)

\* recent_form_multiplier without the test of the weight
recent_form_weight_untested(c, i) ==
    IF FLe(i.season_avg_pts, Zero0) THEN One
    ELSE FAdd(One, FMul(FDiv(FSub(i.recent_avg_pts, i.season_avg_pts),
                             i.season_avg_pts),
                        c.W_RECENT_FORM))

\* recent_form_multiplier with the ratio in place of the relative deviation
recent_form_ratio(c, i) ==
    IF FEq(c.W_RECENT_FORM, Zero0) \/ FLe(i.season_avg_pts, Zero0) THEN One
    ELSE FAdd(One, FMul(FDiv(i.recent_avg_pts, i.season_avg_pts),
                        c.W_RECENT_FORM))

\* minutes_trend_multiplier without the test of the season minutes
minutes_trend_unguarded(c, i) ==
    IF FEq(c.W_MINUTES_TREND, Zero0) THEN One
    ELSE FAdd(One, FMul(FDiv(FSub(i.expected_minutes, i.season_avg_minutes),
                             i.season_avg_minutes),
                        c.W_MINUTES_TREND))

\* b2b_multiplier without the test of the penalty's sign
b2b_flag_only(c, i) ==
    IF i.is_back_to_back = 0 THEN One ELSE FSub(One, c.W_B2B_PENALTY)

\* the product with base_points as a ninth factor
uncapped_with_base(o) ==
    FMul(FMul(FMul(FMul(FMul(FMul(FMul(FMul(o.mult_homeaway,
        o.mult_game_total), o.mult_team_total), o.mult_def_pos),
        o.mult_recent), o.mult_minutes), o.mult_pace), o.mult_b2b),
        o.base_points)

\* the projection from the product before the caps
Projection_uncapped(o) ==
    o @@ [projection |-> FMul(o.base_points, o.uncapped_multiplier)]

(***************************************************************************)
(* Model functions                                                         *)
(***************************************************************************)
clamp(x, lo, hi) == IF FLt(x, lo) THEN lo ELSE (IF FGt(x, hi) THEN hi ELSE x)

base_points(c, i) ==
    FAdd(FMul(c.W_BASE_LINE, i.player_line_pts),
         FMul(c.W_BASE_SEASON_AVG, i.season_avg_pts))

homeaway_multiplier(c, i) ==
    FAdd(One, IF i.is_home # 0 THEN c.W_HOME_AWAY ELSE FNeg(c.W_HOME_AWAY))

game_total_multiplier(c, i) ==
    FAdd(One, FMul(FDiv(FSub(i.game_total_ou, c.LEAGUE_AVG_GAME_TOTAL),
                        c.LEAGUE_AVG_GAME_TOTAL),
                   c.W_GAME_TOTAL))

team_total_multiplier(c, i) ==
    FAdd(One, FMul(FDiv(FSub(i.team_total_ou, c.LEAGUE_AVG_TEAM_TOTAL),
                        c.LEAGUE_AVG_TEAM_TOTAL),
                   c.W_TEAM_TOTAL))

defense_vs_pos_multiplier(c, i) ==
    FAdd(One,
         FMul(IF FGt(c.LEAGUE_BASE_PTS_ALLOWED_POS, Zero0)
              THEN FDiv(FSub(i.opp_pts_allowed_vs_pos,
                             c.LEAGUE_BASE_PTS_ALLOWED_POS),
                        c.LEAGUE_BASE_PTS_ALLOWED_POS)
              ELSE Zero0,
              c.W_DEF_VS_POS))

recent_form_multiplier(c, i) ==
    IF FEq(c.W_RECENT_FORM, Zero0) \/ FLe(i.season_avg_pts, Zero0) THEN One
    ELSE FAdd(One, FMul(FDiv(FSub(i.recent_avg_pts, i.season_avg_pts),
                             i.season_avg_pts),
                        c.W_RECENT_FORM))

minutes_trend_multiplier(c, i) ==
    IF FEq(c.W_MINUTES_TREND, Zero0) \/ FLe(i.season_avg_minutes, Zero0)
    THEN One
    ELSE FAdd(One, FMul(FDiv(FSub(i.expected_minutes, i.season_avg_minutes),
                             i.season_avg_minutes),
                        c.W_MINUTES_TREND))

pace_multiplier(c, i) ==
    IF FEq(c.W_PACE, Zero0) \/ FLe(c.LEAGUE_AVG_PACE, Zero0) THEN One
    ELSE FAdd(One, FMul(FDiv(FSub(i.matchup_pace, c.LEAGUE_AVG_PACE),
                             c.LEAGUE_AVG_PACE),
                        c.W_PACE))

b2b_multiplier(c, i) ==
    IF i.is_back_to_back = 0 \/ FLe(c.W_B2B_PENALTY, Zero0) THEN One
    ELSE FSub(One, c.W_B2B_PENALTY)

\* project, its statements in order, each over the Output o filled so far:
\* base_points and the eight multipliers
Multipliers(c, i) ==
    [ base_points     |-> base_points(c, i),
      mult_homeaway   |-> homeaway_multiplier(c, i),
      mult_game_total |-> game_total_multiplier(c, i),
      mult_team_total |-> team_total_multiplier(c, i),
      mult_def_pos    |-> defense_vs_pos_multiplier(c, i),
      mult_recent     |-> recent_form_multiplier(c, i),
      mult_minutes    |-> minutes_trend_multiplier(c, i),
      mult_pace       |-> pace_multiplier(c, i),
      mult_b2b        |-> b2b_multiplier(c, i) ]

\* the product of the eight multipliers, in the order the source multiplies
uncapped_product(o) ==
    FMul(FMul(FMul(FMul(FMul(FMul(FMul(o.mult_homeaway, o.mult_game_total),
        o.mult_team_total), o.mult_def_pos), o.mult_recent), o.mult_minutes),
        o.mult_pace), o.mult_b2b)

Uncapped(o) == o @@ [uncapped_multiplier |-> uncapped_product(o)]

Final(c, o) ==
    o @@ [final_multiplier |->
              clamp(o.uncapped_multiplier, c.MULT_MIN, c.MULT_MAX)]

Projection(o) ==
    o @@ [projection |-> FMul(o.base_points, o.final_multiplier)]

project(c, i) == Projection(Final(c, Uncapped(Multipliers(c, i))))

(***************************************************************************)
(* The program: a build fixes the constants; main reads the input fields   *)
(* one after the other (each conversion succeeding), calls project and     *)
(* prints the Output.                                                      *)
(***************************************************************************)
VARIABLES cfg, in, out, pc
vars == <<cfg, in, out, pc>>

\* How many constants differ from the shipped ones, and how many of the
\* fields read so far from the reference inputs
CfgEdits(c) == IF c = Shipped THEN 0 ELSE 1
InDevs(i) == Cardinality({f \in DOMAIN i : i[f] # Neutral[f]})

\* Output out of main before project has returned
Unset == [f \in {} |-> 0]

NextField(f) ==
    IF f = FieldOrder[Len(FieldOrder)] THEN "project"
    ELSE FieldOrder[1 + CHOOSE j \in DOMAIN FieldOrder : FieldOrder[j] = f]

Init == /\ cfg \in Configs
        /\ in = Unset
        /\ out = Unset
        /\ pc = FieldOrder[1]

\* scanf: the next field is read
ReadInput ==
    /\ pc \in DOMAIN Neutral
    /\ \E v \in Readings[pc] :
          /\ in' = [f \in DOMAIN in \cup {pc} |-> IF f = pc THEN v ELSE in[f]]
          /\ CfgEdits(cfg) + InDevs(in') <= MaxDev
    /\ pc' = NextField(pc)
    /\ UNCHANGED <<cfg, out>>

\* Output out = project(&in); print_output only prints
Project ==
    /\ pc = "project"
    /\ out' = project(cfg, in)
    /\ pc' = "done"
    /\ UNCHANGED <<cfg, in>>

Next == ReadInput \/ Project

Spec == Init /\ [][Next]_vars

Returned == pc = "done"

\* The eight multipliers of an Output
MultFields == { "mult_homeaway", "mult_game_total", "mult_team_total",
                "mult_def_pos", "mult_recent", "mult_minutes", "mult_pace",
                "mult_b2b" }

(***************************************************************************)
(* Properties of project, stated on the Output main holds once project has *)
(* returned.  Equality of doubles is equality of values (a NaN equals      *)
(* itself); FEq, FLt, ... are C's comparisons.                             *)
(***************************************************************************)

\* C1: with the shipped caps, for all inputs final_multiplier lies in
\* [MULT_MIN, MULT_MAX], both bounds inclusive.
C1_FinalWithinCaps ==
    Returned /\ cfg = Shipped =>
        /\ FLe(Shipped.MULT_MIN, out.final_multiplier)
        /\ FLe(out.final_multiplier, Shipped.MULT_MAX)

\* C2: for all inputs projection is exactly base_points * final_multiplier,
\* and base_points is exactly W_BASE_LINE * line + W_BASE_SEASON_AVG *
\* season_avg, neither of them clamped.
C2_ProjectionIsBaseTimesFinal ==
    Returned =>
        /\ out.projection = FMul(out.base_points, out.final_multiplier)
        /\ out.base_points =
               FAdd(FMul(cfg.W_BASE_LINE, in.player_line_pts),
                    FMul(cfg.W_BASE_SEASON_AVG, in.season_avg_pts))

\* C2 witness: project has returned a finite, nonzero projection with the
\* product above MULT_MAX and the final multiplier saturated at MULT_MAX.
C2_Witness ==
    /\ Returned
    /\ FGt(out.uncapped_multiplier, cfg.MULT_MAX)
    /\ out.final_multiplier = cfg.MULT_MAX
    /\ IsFinite(out.projection) /\ ~IsZero(out.projection)

\* C3: final_multiplier is clamp(uncapped_multiplier, MULT_MIN, MULT_MAX): the
\* product unchanged when it is within the caps, exactly MULT_MAX when it is
\* above MULT_MAX, exactly MULT_MIN when it is below MULT_MIN.
C3_FinalIsClampedProduct ==
    Returned =>
        /\ FLe(cfg.MULT_MIN, out.uncapped_multiplier)
           /\ FLe(out.uncapped_multiplier, cfg.MULT_MAX)
           => out.final_multiplier = out.uncapped_multiplier
        /\ FGt(out.uncapped_multiplier, cfg.MULT_MAX)
           => out.final_multiplier = cfg.MULT_MAX
        /\ FLt(out.uncapped_multiplier, cfg.MULT_MIN)
           => out.final_multiplier = cfg.MULT_MIN

\* C3 witness: project has returned with the product below MULT_MIN and the
\* final multiplier saturated at MULT_MIN (C2's witness is the saturation at
\* MULT_MAX).
C3_Witness ==
    /\ Returned
    /\ FLt(out.uncapped_multiplier, cfg.MULT_MIN)
    /\ out.final_multiplier = cfg.MULT_MIN

\* C4: for finite inputs and any setting of the constants every multiplier is
\* finite, and each sub-calculation dividing by a baseline (league game total,
\* league team total, league points allowed, season average points, season
\* average minutes, league pace) returns 1.0 when that baseline is zero or
\* negative.
C4_DivisionsGuarded ==
    Returned =>
        /\ \A f \in MultFields : IsFinite(out[f])
        /\ FLe(cfg.LEAGUE_AVG_GAME_TOTAL, Zero0) => out.mult_game_total = One
        /\ FLe(cfg.LEAGUE_AVG_TEAM_TOTAL, Zero0) => out.mult_team_total = One
        /\ FLe(cfg.LEAGUE_BASE_PTS_ALLOWED_POS, Zero0) => out.mult_def_pos = One
        /\ FLe(in.season_avg_pts, Zero0) => out.mult_recent = One
        /\ FLe(in.season_avg_minutes, Zero0) => out.mult_minutes = One
        /\ FLe(cfg.LEAGUE_AVG_PACE, Zero0) => out.mult_pace = One

\* C5: when the weight of an optional factor (recent form, minutes trend,
\* pace, back-to-back) is 0, that factor's multiplier is exactly 1.0 for all
\* inputs.
C5_ZeroWeightDisablesFactor ==
    Returned =>
        /\ FEq(cfg.W_RECENT_FORM, Zero0) => out.mult_recent = One
        /\ FEq(cfg.W_MINUTES_TREND, Zero0) => out.mult_minutes = One
        /\ FEq(cfg.W_PACE, Zero0) => out.mult_pace = One
        /\ FEq(cfg.W_B2B_PENALTY, Zero0) => out.mult_b2b = One

\* C5 witness: project has returned under a build with W_RECENT_FORM = 0 for
\* inputs whose recent average deviates from a positive season average.
C5_Witness ==
    /\ Returned
    /\ FEq(cfg.W_RECENT_FORM, Zero0)
    /\ FGt(in.season_avg_pts, Zero0)
    /\ ~FEq(in.recent_avg_pts, in.season_avg_pts)
    /\ out.mult_recent = One

\* C6: for season_avg_pts > 0 and recent_avg_pts = season_avg_pts the
\* recent-form multiplier is exactly 1.0, whatever W_RECENT_FORM is.
C6_RecentEqualSeasonIsNeutral ==
    Returned /\ FGt(in.season_avg_pts, Zero0)
             /\ FEq(in.recent_avg_pts, in.season_avg_pts)
        => out.mult_recent = One

\* C6 witness: project has returned for a positive season average other than
\* the reference one, the recent average equal to it, under a nonzero weight.
C6_Witness ==
    /\ Returned
    /\ FGt(in.season_avg_pts, Zero0)
    /\ FEq(in.recent_avg_pts, in.season_avg_pts)
    /\ in.season_avg_pts # Neutral.season_avg_pts
    /\ ~FEq(cfg.W_RECENT_FORM, Zero0)

\* C7: for expected_minutes = season_avg_minutes, season_avg_minutes zero or
\* negative included, the minutes-trend multiplier is exactly 1.0, whatever
\* W_MINUTES_TREND is.
C7_ExpectedEqualSeasonIsNeutral ==
    Returned /\ FEq(in.expected_minutes, in.season_avg_minutes)
        => out.mult_minutes = One

\* C7 witness: project has returned for expected minutes equal to season
\* minutes that are zero or negative.
C7_Witness ==
    /\ Returned
    /\ FEq(in.expected_minutes, in.season_avg_minutes)
    /\ FLe(in.season_avg_minutes, Zero0)

\* C8: the back-to-back multiplier is 1.0 when the flag is 0 or
\* W_B2B_PENALTY <= 0, and exactly 1 - W_B2B_PENALTY otherwise, whatever the
\* other inputs are.
C8_BackToBackIsFlat ==
    Returned =>
        out.mult_b2b =
            IF in.is_back_to_back = 0 \/ FLe(cfg.W_B2B_PENALTY, Zero0)
            THEN One
            ELSE FSub(One, cfg.W_B2B_PENALTY)

\* C8 witness: project has returned with the flag set, a positive penalty and
\* another input away from its reference value.
C8_Witness ==
    /\ Returned
    /\ in.is_back_to_back # 0
    /\ FGt(cfg.W_B2B_PENALTY, Zero0)
    /\ InDevs(in) >= 2
    /\ out.mult_b2b # One

\* C9 as amended: with the shipped constants and the reference inputs,
\* home/away, the product and the final multiplier are 1.04 and the other
\* multipliers 1.0, while base_points and projection are the doubles next
\* above 24.2 and 25.168 (each 2^-48 more).
C9_ScenarioRounded ==
    Returned /\ cfg = Shipped /\ in = Neutral =>
        /\ out.base_points = FAdd(Lit(242, 10), TwoTo(0 - 48))
        /\ out.mult_homeaway = Lit(104, 100)
        /\ \A f \in MultFields \ {"mult_homeaway"} : out[f] = One
        /\ out.uncapped_multiplier = Lit(104, 100)
        /\ out.final_multiplier = Lit(104, 100)
        /\ out.projection = FAdd(Lit(25168, 1000), TwoTo(0 - 48))

\* C9 witness: project has returned for the reference inputs under the
\* shipped constants.
C9_Witness == Returned /\ cfg = Shipped /\ in = Neutral

\* C9 as stated: in that scenario base_points = 24.2, the deviation-based and
\* the b2b multipliers = 1.0, home/away = uncapped = final = 1.04 and
\* projection = 25.168.
C9_ScenarioExact ==
    Returned /\ cfg = Shipped /\ in = Neutral =>
        /\ out.base_points = Lit(242, 10)
        /\ out.mult_homeaway = Lit(104, 100)
        /\ \A f \in MultFields \ {"mult_homeaway"} : out[f] = One
        /\ out.uncapped_multiplier = Lit(104, 100)
        /\ out.final_multiplier = Lit(104, 100)
        /\ out.projection = Lit(25168, 1000)

\* C10: uncapped_multiplier is the product of exactly the eight multipliers of
\* the same Output, base_points is no factor of it, each multiplier is its
\* formula of the spec (home/away 1 +/- W_HOME_AWAY; the six others 1 +
\* relative deviation * weight, under the guards the spec gives them), and
\* reading another player_line_pts leaves the product as it is.
C10_ProductOfEight ==
    Returned =>
        /\ out.uncapped_multiplier =
               FMul(FMul(FMul(FMul(FMul(FMul(FMul(out.mult_homeaway,
                   out.mult_game_total), out.mult_team_total),
                   out.mult_def_pos), out.mult_recent), out.mult_minutes),
                   out.mult_pace), out.mult_b2b)
        /\ out.mult_homeaway =
               IF in.is_home # 0 THEN FAdd(One, cfg.W_HOME_AWAY)
               ELSE FSub(One, cfg.W_HOME_AWAY)
        /\ out.mult_game_total =
               FAdd(One, FMul(FDiv(FSub(in.game_total_ou,
                                        cfg.LEAGUE_AVG_GAME_TOTAL),
                                   cfg.LEAGUE_AVG_GAME_TOTAL),
                              cfg.W_GAME_TOTAL))
        /\ out.mult_team_total =
               FAdd(One, FMul(FDiv(FSub(in.team_total_ou,
                                        cfg.LEAGUE_AVG_TEAM_TOTAL),
                                   cfg.LEAGUE_AVG_TEAM_TOTAL),
                              cfg.W_TEAM_TOTAL))
        /\ out.mult_def_pos =
               IF FLe(cfg.LEAGUE_BASE_PTS_ALLOWED_POS, Zero0) THEN One
               ELSE FAdd(One, FMul(FDiv(FSub(in.opp_pts_allowed_vs_pos,
                                             cfg.LEAGUE_BASE_PTS_ALLOWED_POS),
                                        cfg.LEAGUE_BASE_PTS_ALLOWED_POS),
                                   cfg.W_DEF_VS_POS))
        /\ out.mult_recent =
               IF FEq(cfg.W_RECENT_FORM, Zero0) \/ FLe(in.season_avg_pts, Zero0)
               THEN One
               ELSE FAdd(One, FMul(FDiv(FSub(in.recent_avg_pts,
                                             in.season_avg_pts),
                                        in.season_avg_pts),
                                   cfg.W_RECENT_FORM))
        /\ out.mult_minutes =
               IF FEq(cfg.W_MINUTES_TREND, Zero0)
                  \/ FLe(in.season_avg_minutes, Zero0)
               THEN One
               ELSE FAdd(One, FMul(FDiv(FSub(in.expected_minutes,
                                             in.season_avg_minutes),
                                        in.season_avg_minutes),
                                   cfg.W_MINUTES_TREND))
        /\ out.mult_pace =
               IF FEq(cfg.W_PACE, Zero0) \/ FLe(cfg.LEAGUE_AVG_PACE, Zero0)
               THEN One
               ELSE FAdd(One, FMul(FDiv(FSub(in.matchup_pace,
                                             cfg.LEAGUE_AVG_PACE),
                                        cfg.LEAGUE_AVG_PACE),
                                   cfg.W_PACE))
        /\ \A v \in Readings["player_line_pts"] :
               project(cfg, [in EXCEPT !.player_line_pts = v])
                   .uncapped_multiplier = out.uncapped_multiplier

\* C10 witness: project has returned a finite product with two multipliers
\* away from 1.0 besides home/away, and a base_points that is not 1.0.
C10_Witness ==
    /\ Returned
    /\ IsFinite(out.uncapped_multiplier)
    /\ out.mult_game_total # One
    /\ out.mult_def_pos # One
    /\ out.base_points # One

====
